---------------------------- MODULE Spec2Model ----------------------------
(***************************************************************************)
(* A model of rblxopencloud's webhook verifier (webhook.py) and of         *)
(* OAuth2App (oauth2.py): the OpenID certs cache of exchange_code, the      *)
(* token calls and the authorization URI.                                  *)
(*                                                                         *)
(* Strings that the code splits are modelled by their pieces: a header is  *)
(* the sequence of its ","-separated parts and a part is the sequence of   *)
(* its "="-separated segments.  HMAC-SHA256 and base64 are symbolic: a     *)
(* digest is the record of what was keyed and hashed, and two digests are  *)
(* equal only if key, timestamp text and body are equal.                   *)
(***************************************************************************)
EXTENDS Integers, Sequences, FiniteSets, TLC

VARIABLES
    secret,      \* Webhook.secret
    events,      \* Webhook.__events
    on_error,    \* Webhook.__on_error
    wnow,        \* time.time() as seen by the webhook, whole seconds
    wlast,       \* the call in progress on the webhook and its outcome
    openid_certs_cache,          \* OAuth2App.__openid_certs_cache
    openid_certs_cache_updated,  \* OAuth2App.__openid_certs_cache_updated
    openid_certs_cache_seconds,  \* OAuth2App.openid_certs_cache_seconds
    onow,        \* time.time() as seen by the OAuth2App, whole seconds
    pc,          \* where each caller of the OAuth2App is in exchange_code
    loc,         \* the local variables of each caller's exchange_code
    fetched,     \* history: the key lists the certs endpoint has returned
    olast        \* the other call in progress on the OAuth2App or on an
                 \* access token of it, and its outcome

wvars == <<secret, events, on_error, wnow, wlast>>

ovars == <<openid_certs_cache, openid_certs_cache_updated,
           openid_certs_cache_seconds, onow, pc, loc, fetched>>

vars == <<secret, events, on_error, wnow, wlast,
          openid_certs_cache, openid_certs_cache_updated,
          openid_certs_cache_seconds, onow, pc, loc, fetched, olast>>

(***************************************************************************)
(* Bounds of the model.                                                    *)
(***************************************************************************)
StartTime == 1000
WMaxTicks == 1
MaxCacheSeconds == 2
OMaxClock == 3
\* generate_code_verifier: the lengths whose every outcome is enumerated,
\* and how many streams of random draws longer verifiers are taken from.
MaxVerifierLen == 2
NumStreams == 3

(***************************************************************************)
(* webhook.py                                                              *)
(***************************************************************************)
REPLAY_WINDOW == 600

NoSecret == "<None>"
Secrets == {NoSecret, "", "k1", "k2"}
SenderKeys == {"k1", "k2"}

\* A mapping that sends every other EventType to the test handler.
EVENT_TYPES_Default(etype) ==
    CASE etype = "RightToErasureRequest" -> "on_right_to_erasure_request"
      [] OTHER -> "on_test"

\* EVENT_TYPES: the payload's EventType -> the handler's name; "" is the
\* None that dict.get returns for any other key.
EVENT_TYPES(etype) ==
    CASE etype = "SampleNotification" -> "on_test"
      [] etype = "RightToErasureRequest" -> "on_right_to_erasure_request"
      [] OTHER -> ""

EventNames == {"on_test", "on_right_to_erasure_request"}

\* The functions a user may pass to Webhook.event.  The function with id 2
\* of each name raises when it is called, the one with id 1 returns.
NoFunc == [name |-> "", id |-> 0]
Funcs == [name : {"on_test", "on_error"}, id : {1, 2}]
         \cup [name : {"on_right_to_erasure_request", "on_message"}, id : {1}]
Raises(f) == f.id = 2

---------------------------------------------------------------------------
(* Segments of a header. *)
Seg(kind, txt, n, key, mkind, mtxt, mn, body) ==
    [kind |-> kind, txt |-> txt, n |-> n, key |-> key,
     mkind |-> mkind, mtxt |-> mtxt, mn |-> mn, body |-> body]
Lit(s) == Seg("lit", s, 0, "", "", "", 0, 0)
Num(n) == Seg("num", "", n, "", "", "", 0, 0)

\* hmac.new(key, msg = ts.encode() + b'.' + body, sha256).digest()
HmacSha256(key, ts, body) == Seg("digest", "", 0, key, ts.kind, ts.txt, ts.n, body)

\* base64.b64encode(digest).decode(): 32 bytes give 43 characters and one
\* "=" of padding, so the text splits on "=" into the 43 characters and "".
B64Encode(d) == << [d EXCEPT !.kind = "b64"], Lit("") >>

\* s.split('=')[1]: the segment after the first "=", IndexError without one.
HasField(part) == Len(part) >= 2
SplitField(part) == part[2]
\* s.split('=')[1] where maxsplit was meant: the padding is cut off.
SplitRest_NoMaxsplit(part) == << part[2] >>
\* s.split('=', maxsplit=1)[1]: everything after the first "=".
SplitRest(part) == Tail(part)

\* int(text): only a numeric text converts.
IsInt(seg) == seg.kind = "num"

---------------------------------------------------------------------------
(* Bodies: the raw bytes are the index, the table is what json.loads and   *)
(* the notification classes find in them.                                  *)
Body(json, base, hasType, etype, hasUid, uid, hasGames) ==
    [json |-> json, base |-> base, hasType |-> hasType, etype |-> etype,
     hasUid |-> hasUid, uid |-> uid, hasGames |-> hasGames]
BodyTable == <<
    Body(FALSE, FALSE, FALSE, "", FALSE, 0, FALSE),
    Body(TRUE, FALSE, TRUE, "SampleNotification", TRUE, 7, FALSE),
    Body(TRUE, TRUE, TRUE, "SampleNotification", TRUE, 7, FALSE),
    Body(TRUE, TRUE, TRUE, "SampleNotification", TRUE, 9, FALSE),
    Body(TRUE, TRUE, TRUE, "SampleNotification", FALSE, 0, FALSE),
    Body(TRUE, TRUE, TRUE, "RightToErasureRequest", TRUE, 7, TRUE),
    Body(TRUE, TRUE, TRUE, "RightToErasureRequest", TRUE, 7, FALSE),
    Body(TRUE, TRUE, TRUE, "Unheard", TRUE, 7, FALSE),
    Body(TRUE, TRUE, FALSE, "", TRUE, 7, FALSE) >>
Bodies == 1..Len(BodyTable)

---------------------------------------------------------------------------
(* What process_notification did: what it returned or raised, whether the  *)
(* signature comparison of line 42 passed, whether json.loads was reached, *)
(* and the handlers it called, in order.                                   *)
Outcome(ret, exc, verified, parsed, calls) ==
    [ret |-> ret, exc |-> exc, verified |-> verified, parsed |-> parsed,
     calls |-> calls]
CallOf(f, kind, uid, err) ==
    [fn |-> f.name, fid |-> f.id, kind |-> kind, user_id |-> uid, err |-> err]

\* A comparison that ignores the padding of the signature.
SignatureMatches_Unpadded(key, body, header) ==
    B64Encode(HmacSha256(key, SplitField(header[1]), body))[1] = header[2][2]

\* Lines 34-42.
SignatureMatches(key, body, header) ==
    B64Encode(HmacSha256(key, SplitField(header[1]), body)) = SplitRest(header[2])

\* A verification that lets a request without a header through.
SignaturePhase_HeaderOptional(key, body, header) ==
    IF key = NoSecret \/ key = "" THEN "skip"
    ELSE IF header = <<>> THEN "skip"
    ELSE IF ~ (Len(header) >= 2) THEN "reject"
    ELSE IF ~ HasField(header[1]) THEN "IndexError"
    ELSE IF ~ HasField(header[2]) THEN "IndexError"
    ELSE IF ~ SignatureMatches(key, body, header) THEN "reject"
    ELSE "pass"

SignaturePhase(key, body, header) ==
    IF key = NoSecret \/ key = "" THEN "skip"
    ELSE IF header = <<>> THEN "reject"
    ELSE IF ~ (Len(header) >= 2) THEN "reject"
    ELSE IF ~ HasField(header[1]) THEN "IndexError"
    ELSE IF ~ HasField(header[2]) THEN "IndexError"
    ELSE IF ~ SignatureMatches(key, body, header) THEN "reject"
    ELSE "pass"

\* The difference taken the other way round.
TooOld_Flipped(now, t) == 0 < t - now /\ t - now > REPLAY_WINDOW

\* Line 47.
TooOld(now, t) == 0 < now - t /\ now - t > REPLAY_WINDOW

\* Lines 44-48.
ReplayPhase(now, header) ==
    IF header = <<>> THEN "pass"
    ELSE IF ~ HasField(header[1]) THEN "IndexError"
    ELSE IF ~ IsInt(SplitField(header[1])) THEN "ValueError"
    ELSE IF TooOld(now, SplitField(header[1]).n) THEN "reject"
    ELSE "pass"

\* Lines 54-66: the body of the try statement.  kind and uid are the
\* notification bound to the variable `notification` when the body ends.
TryResult(err, calls, kind, uid) ==
    [err |-> err, calls |-> calls, kind |-> kind, uid |-> uid]
TryBody(evs, b) ==
    LET event_type == EVENT_TYPES(b.etype)
        typed == IF event_type = "on_test" THEN "TestNotification"
                 ELSE "RightToErasureRequestNotification"
        function == evs[event_type]
    IN  IF ~ b.hasType THEN TryResult("KeyError", <<>>, "Notification", 0)
        ELSE IF event_type = ""
            THEN TryResult("UnknownEventType", <<>>, "Notification", 0)
        ELSE IF ~ b.hasUid \/ (event_type # "on_test" /\ ~ b.hasGames)
            THEN TryResult("KeyError", <<>>, "Notification", 0)
        ELSE IF function = NoFunc
            THEN TryResult("UndefinedEventType", <<>>, typed, b.uid)
        ELSE TryResult(IF Raises(function) THEN "HandlerError" ELSE "",
                       << CallOf(function, typed, b.uid, "") >>, typed, b.uid)

\* An except clause that raises the error again after on_error took it.
ExceptClause_Reraise(onerr, verified, r) ==
    IF r.err = "" THEN Outcome("204", "", verified, TRUE, r.calls)
    ELSE IF onerr # NoFunc
        THEN Outcome("raise", r.err, verified, TRUE,
                     Append(r.calls, CallOf(onerr, r.kind, r.uid, r.err)))
    ELSE Outcome("raise", r.err, verified, TRUE, r.calls)

\* Lines 67-73.
ExceptClause(onerr, verified, r) ==
    IF r.err = "" THEN Outcome("204", "", verified, TRUE, r.calls)
    ELSE IF onerr # NoFunc
        THEN LET calls == Append(r.calls, CallOf(onerr, r.kind, r.uid, r.err))
             IN  IF Raises(onerr)
                 THEN Outcome("raise", "ErrorHandlerError", verified, TRUE, calls)
                 ELSE Outcome("204", "", verified, TRUE, calls)
    ELSE Outcome("raise", r.err, verified, TRUE, r.calls)

\* Lines 50-73.
Dispatch(evs, onerr, verified, body) ==
    LET b == BodyTable[body]
    IN  IF ~ b.json THEN Outcome("raise", "JSONDecodeError", verified, TRUE, <<>>)
        ELSE IF ~ b.base THEN Outcome("raise", "KeyError", verified, TRUE, <<>>)
        ELSE ExceptClause(onerr, verified, TryBody(evs, b))

Rejected == Outcome("401", "", FALSE, FALSE, <<>>)

\* Lines 32-73.
process_notification(key, evs, onerr, now, body, header, validate_signature) ==
    LET sig == IF validate_signature THEN SignaturePhase(key, body, header)
               ELSE "skip"
        rep == IF validate_signature /\ sig \in {"skip", "pass"}
               THEN ReplayPhase(now, header) ELSE "pass"
    IN  IF sig = "reject" THEN Rejected
        ELSE IF sig = "IndexError"
            THEN Outcome("raise", "IndexError", FALSE, FALSE, <<>>)
        ELSE IF rep = "reject" THEN Rejected
        ELSE IF rep # "pass"
            THEN Outcome("raise", rep, sig = "pass", FALSE, <<>>)
        ELSE Dispatch(evs, onerr, sig = "pass", body)

---------------------------------------------------------------------------
(* The requests a sender can make. *)
Offsets == {0 - 700, 0 - 601, 0 - 600, 0, 600, 601, 700}
TimestampTexts(now) == {Num(now + d) : d \in Offsets} \cup {Lit("soon")}

OtherBody(body) == (body % Len(BodyTable)) + 1

\* What a sender may put after "v1=": the signature made with either key,
\* one made for another body or another timestamp, one that lost its
\* padding, and text that is no signature.
Signatures(ts, now, body) ==
    { B64Encode(HmacSha256(k, ts, body)) : k \in SenderKeys }
    \cup { B64Encode(HmacSha256("k1", ts, OtherBody(body))),
           B64Encode(HmacSha256("k1", Num(now), body)),
           << B64Encode(HmacSha256("k1", ts, body))[1] >>,
           << Lit("AAAA") >> }

Headers(now, body) ==
    { <<>> }
    \cup { << <<Lit("t"), ts>> >> : ts \in TimestampTexts(now) }
    \cup { << <<Lit("t")>>, <<Lit("v1")>> \o s >> :
             s \in Signatures(Lit("t"), now, body) }
    \cup { << <<Lit("t"), ts>>, <<Lit("v1")>> >> : ts \in {Num(now), Num(now - 700)} }
    \cup UNION { { << <<Lit("t"), ts>>, <<Lit("v1")>> \o s >> :
                     s \in Signatures(ts, now, body) } :
                 ts \in TimestampTexts(now) }

---------------------------------------------------------------------------
Ready == [op |-> "ready", body |-> 0, header |-> <<>>, validate |-> TRUE,
          now |-> 0, evs |-> [e \in EventNames |-> NoFunc], onerr |-> NoFunc,
          func |-> NoFunc, out |-> Rejected]

WInit ==
    /\ secret \in Secrets
    /\ events = [e \in EventNames |-> NoFunc]
    /\ on_error = NoFunc
    /\ wnow = StartTime
    /\ wlast = Ready

\* A registration that keeps the handler an event already has.
Event_KeepFirst(func) ==
    /\ wlast.op = "ready"
    /\ IF func.name = "on_error"
       THEN /\ on_error' = func
            /\ UNCHANGED events
            /\ wlast' = [Ready EXCEPT !.op = "event", !.func = func,
                                      !.evs = events, !.onerr = on_error,
                                      !.out = Outcome("return", "", FALSE, FALSE, <<>>)]
       ELSE IF func.name \notin EventNames
       THEN /\ UNCHANGED <<events, on_error>>
            /\ wlast' = [Ready EXCEPT !.op = "event", !.func = func,
                                      !.evs = events, !.onerr = on_error,
                                      !.out = Outcome("raise", "ValueError", FALSE, FALSE, <<>>)]
       ELSE /\ events' = IF events[func.name] = NoFunc
                         THEN [events EXCEPT ![func.name] = func]
                         ELSE events
            /\ UNCHANGED on_error
            /\ wlast' = [Ready EXCEPT !.op = "event", !.func = func,
                                      !.evs = events, !.onerr = on_error,
                                      !.out = Outcome("return", "", FALSE, FALSE, <<>>)]
    /\ UNCHANGED <<secret, wnow>>

\* Webhook.event(func), lines 75-83.  The record of the call keeps what the
\* registry and the error slot held when it began.
Event(func) ==
    /\ wlast.op = "ready"
    /\ IF func.name = "on_error"
       THEN /\ on_error' = func
            /\ UNCHANGED events
            /\ wlast' = [Ready EXCEPT !.op = "event", !.func = func,
                                      !.evs = events, !.onerr = on_error,
                                      !.out = Outcome("return", "", FALSE, FALSE, <<>>)]
       ELSE IF func.name \notin EventNames
       THEN /\ UNCHANGED <<events, on_error>>
            /\ wlast' = [Ready EXCEPT !.op = "event", !.func = func,
                                      !.evs = events, !.onerr = on_error,
                                      !.out = Outcome("raise", "ValueError", FALSE, FALSE, <<>>)]
       ELSE /\ events' = [events EXCEPT ![func.name] = func]
            /\ UNCHANGED on_error
            /\ wlast' = [Ready EXCEPT !.op = "event", !.func = func,
                                      !.evs = events, !.onerr = on_error,
                                      !.out = Outcome("return", "", FALSE, FALSE, <<>>)]
    /\ UNCHANGED <<secret, wnow>>

\* Webhook.process_notification(body, secret_header, validate_signature).
ProcessNotification(body, header, validate_signature) ==
    /\ wlast.op = "ready"
    /\ wlast' = [op |-> "process_notification", body |-> body, header |-> header,
                 validate |-> validate_signature, now |-> wnow,
                 evs |-> events, onerr |-> on_error, func |-> NoFunc,
                 out |-> process_notification(secret, events, on_error, wnow,
                                              body, header, validate_signature)]
    /\ UNCHANGED <<secret, events, on_error, wnow>>

\* The caller takes the result; the next call may begin.
WReturn ==
    /\ wlast.op # "ready"
    /\ wlast' = Ready
    /\ UNCHANGED <<secret, events, on_error, wnow>>

WTick ==
    /\ wnow < StartTime + WMaxTicks
    /\ wnow' = wnow + 1
    /\ UNCHANGED <<secret, events, on_error, wlast>>

WNext ==
    /\ \/ /\ wlast.op = "ready"
          /\ \E func \in Funcs : Event(func)
       \/ /\ wlast.op = "ready"
          /\ \E body \in Bodies : \E header \in Headers(wnow, body) :
               \E validate_signature \in BOOLEAN :
                  ProcessNotification(body, header, validate_signature)
       \/ WReturn
       \/ WTick
    /\ UNCHANGED <<ovars, olast>>

---------------------------------------------------------------------------
(***************************************************************************)
(* oauth2.py: OAuth2App.exchange_code and the OpenID certs cache.          *)
(***************************************************************************)
\* None, for the cache (a list of keys) and for its timestamp (a time).
NoCache == << <<0, 0>> >>
NoTime == 0 - 1

ClientId == "client"

\* The entries of the certs endpoint's "keys" and the key made of each:
\* the curve point with the entry's decoded coordinates (lines 329-336).
Cert(n) == [x |-> n, y |-> n + 1]
PublicKey(cert) == <<cert.x, cert.y>>
NoKey == <<0, 0>>
KeysOf(certs) == [i \in 1..Len(certs) |-> PublicKey(certs[i])]

\* What the certs endpoint may answer: whether certs.ok, and the keys.
CertLists == { <<>>, <<Cert(1), Cert(3)>>, <<Cert(5), Cert(7)>> }
CertsResponses == [ok : BOOLEAN, keys : CertLists]

\* ID tokens: who signed (ES256), for which audience, until when, about
\* which user.
NoToken == [signer |-> NoKey, aud |-> "", exp |-> 0, sub |-> 0]
IdTokens == [signer : {PublicKey(Cert(1)), PublicKey(Cert(7))},
             aud : {ClientId, "another"}, exp : {2, 99}, sub : {7}]
\* What the token endpoint may answer: the status and the body's id_token.
TokenResponses == [status : {200, 304, 400, 401, 403, 503},
                   id_token : IdTokens \cup {NoToken}]
\* The answers to a valid code of a user who granted openid.
GrantedResponses ==
    [status : {200}, id_token : {t \in IdTokens : t.aud = ClientId /\ t.exp = 99}]

\* A decoder that does not look at exp.
JwtDecodes_NoExpiry(token, key, now) == token.signer = key /\ token.aud = ClientId

\* jwt.decode(id_token, cert, algorithms=['ES256'], audience=str(self.id)):
\* the claims, or PyJWTError for another key's signature, another audience
\* or an exp that has passed.
JwtDecodes(token, key, now) ==
    token.signer = key /\ token.aud = ClientId /\ token.exp > now

\* A loop without its break: every key is tried.
RECURSIVE KeysTried_NoBreak(_, _, _)
KeysTried_NoBreak(token, keys, now) ==
    IF keys = <<>> THEN 0
    ELSE 1 + KeysTried_NoBreak(token, Tail(keys), now)

\* Lines 339-344: how many keys of the list the loop passes to jwt.decode,
\* and the claims it ends with, None when no key decodes the token.
RECURSIVE KeysTried(_, _, _)
KeysTried(token, keys, now) ==
    IF keys = <<>> THEN 0
    ELSE IF JwtDecodes(token, Head(keys), now) THEN 1
    ELSE 1 + KeysTried(token, Tail(keys), now)

FirstDecoding(token, keys, now) ==
    LET n == KeysTried(token, keys, now)
    IN  IF n > 0 /\ JwtDecodes(token, keys[n], now) THEN token ELSE NoToken

Callers == {"a", "b"}

NoResult == [ret |-> "", exc |-> "", user |-> 0]
Locals == [resp |-> [status |-> 0, id_token |-> NoToken],
           fetching |-> FALSE, certs |-> <<>>, i |-> 0,
           used |-> NoCache, tried |-> 0, id_token |-> NoToken,
           result |-> NoResult]

(***************************************************************************)
(* The calls that keep no state between their steps: refresh_token,        *)
(* revoke_token, generate_uri, generate_code_verifier on the OAuth2App and *)
(* fetch_resources, fetch_token_info on one of its access tokens.  olast   *)
(* records the call and what it gave.                                      *)
(***************************************************************************)
\* Argument and parameter values: None, a str, a list of str, and the
\* symbolic results of hashing and encoding a str.  pad says that the text
\* ends in base64's "=", quoted that urlencode has quoted it.
None == [kind |-> "None", text |-> "", items |-> <<>>, pad |-> FALSE, quoted |-> FALSE]
Str(s) == [kind |-> "str", text |-> s, items |-> <<>>, pad |-> FALSE, quoted |-> FALSE]
List(ws) == [kind |-> "list", text |-> "", items |-> ws, pad |-> FALSE, quoted |-> FALSE]
\* Python's truth value of an Optional[str].
Truthy(v) == v # None /\ v # Str("")

\* " ".join(scope)
RECURSIVE Join(_)
Join(ws) ==
    IF ws = <<>> THEN ""
    ELSE IF Len(ws) = 1 THEN ws[1]
    ELSE ws[1] \o " " \o Join(Tail(ws))

\* hashlib.sha256(code_verifier.encode()).digest(): 32 bytes that stand for
\* the text hashed.
Sha256(v) == [kind |-> "sha256", text |-> v.text, items |-> <<>>, pad |-> FALSE, quoted |-> FALSE]
\* base64.urlsafe_b64encode of 32 bytes: 43 characters and one "=".
UrlsafeB64Encode(d) == [d EXCEPT !.kind = "b64url-" \o d.kind, !.pad = TRUE]
\* .replace(b"=", b""): the alphabet of the encoding has no other "=".
StripPadding(v) == [v EXCEPT !.pad = FALSE]

\* A challenge that keeps the padding of the encoding.
CodeChallenge_Padded(code_verifier) ==
    IF Truthy(code_verifier) THEN UrlsafeB64Encode(Sha256(code_verifier)) ELSE None

\* Line 290.
CodeChallenge(code_verifier) ==
    IF Truthy(code_verifier)
    THEN StripPadding(UrlsafeB64Encode(Sha256(code_verifier)))
    ELSE None

RedirectUri == "https://example.org/callback"

\* Lines 284-292: the dict, in insertion order.
Params(scope, state, generate_code, code_verifier) ==
    << [key |-> "client_id", value |-> Str(ClientId)],
       [key |-> "scope",
        value |-> IF scope.kind = "list" THEN Str(Join(scope.items)) ELSE scope],
       [key |-> "state", value |-> state],
       [key |-> "redirect_uri", value |-> Str(RedirectUri)],
       [key |-> "response_type",
        value |-> IF generate_code THEN Str("code") ELSE Str("none")],
       [key |-> "code_challenge", value |-> CodeChallenge(code_verifier)],
       [key |-> "code_challenge_method",
        value |-> IF Truthy(code_verifier) THEN Str("S256") ELSE None] >>

\* parse.urlencode: key=quote_plus(value) for every item it is given.
QuotePlus(v) == [v EXCEPT !.quoted = TRUE]
Urlencode(items) ==
    [i \in 1..Len(items) |-> [key |-> items[i].key, value |-> QuotePlus(items[i].value)]]

\* Line 293: the query of the URI, of the items whose value is not None.
Query(params) == Urlencode(SelectSeq(params, LAMBDA item : item.value # None))

\* The arguments generate_uri is called with.
Scopes == {Str("openid"), Str(""), List(<<>>), List(<<"openid", "profile">>)}
States == {None, Str(""), Str("xyz")}
CodeVerifiers == {None, Str(""), Str("verifier-1"), Str("verifier-2")}
NoArgs == [scope |-> None, state |-> None, generate_code |-> FALSE, code_verifier |-> None]

\* An alphabet with base64's "+" and "/" in it.
Alphabet_Base64 ==
    << "a", "b", "c", "d", "e", "f", "g", "h", "i", "j", "k", "l", "m",
       "n", "o", "p", "q", "r", "s", "t", "u", "v", "w", "x", "y", "z",
       "A", "B", "C", "D", "E", "F", "G", "H", "I", "J", "K", "L", "M",
       "N", "O", "P", "Q", "R", "S", "T", "U", "V", "W", "X", "Y", "Z",
       "0", "1", "2", "3", "4", "5", "6", "7", "8", "9", "+", "/", "_", "~" >>

\* Line 266: f"{string.ascii_letters}{string.digits}-._~".
Alphabet ==
    << "a", "b", "c", "d", "e", "f", "g", "h", "i", "j", "k", "l", "m",
       "n", "o", "p", "q", "r", "s", "t", "u", "v", "w", "x", "y", "z",
       "A", "B", "C", "D", "E", "F", "G", "H", "I", "J", "K", "L", "M",
       "N", "O", "P", "Q", "R", "S", "T", "U", "V", "W", "X", "Y", "Z",
       "0", "1", "2", "3", "4", "5", "6", "7", "8", "9", "-", ".", "_", "~" >>

\* Line 251: length: Optional[int]=128.
DefaultLength == 128
\* generate_code_verifier() called without its argument.
NoLength == 0 - 1

\* What secrets.choice draws in the length turns of the generator: an index
\* into the alphabet each turn.  Every sequence of draws for the short
\* lengths, NumStreams of them for the others.
RandomDraws(length) ==
    IF length <= MaxVerifierLen
    THEN [1..length -> 1..Len(Alphabet)]
    ELSE { [k \in 1..length |-> ((seed * k + seed + k) % Len(Alphabet)) + 1] :
               seed \in 0..(NumStreams - 1) }

\* Lines 265-268: ''.join(secrets.choice(alphabet) for _ in range(length)),
\* the string as the sequence of its characters.
CodeVerifier(length, draws) == [k \in 1..length |-> Alphabet[draws[k]]]

\* What an endpoint may answer: the status and, in the body of an error,
\* the "error" and "scope" keys.  NoError: the body has no "error" key.
NoError == ""
\* payload["expires_in"] of a granted token, in seconds.
ExpiresIn == {0, 1, 900}
Answers(statuses) ==
    {r \in [status : statuses,
            error : {NoError, "invalid_grant", "insufficient_scope"},
            scope : {"", "openid"},
            expires_in : ExpiresIn] :
        /\ r.status < 400 => r.error = NoError
        /\ r.status >= 400 => r.expires_in = 0
        /\ r.scope = "openid" <=> r.error = "insufficient_scope"}
NoAnswer == [status |-> 0, error |-> NoError, scope |-> "", expires_in |-> 0]
\* request_session.post(...) of refresh_token and revoke_token.
TokenAnswers == Answers({200, 304, 400, 401, 403, 503})
\* send_request(..., expected_status=[200, 401]) of fetch_resources and
\* fetch_token_info.
FetchAnswers == Answers({200, 401})

NoOutcome == [ret |-> "", exc |-> "", user |-> 0, scope |-> "",
              expires_at |-> NoTime]
Returns(what) == [NoOutcome EXCEPT !.ret = what]
Throws(exc) == [NoOutcome EXCEPT !.ret = "raise", !.exc = exc]

\* datetime.timedelta(n): the first positional parameter is days.  Times
\* are in seconds.
Timedelta(days) == days * 86400

\* Lines 185-187: datetime.datetime.now() + datetime.timedelta(expires_in).
ExpiresAt(now, expires_in) == now + Timedelta(expires_in)

\* AccessToken.__init__, lines 181-201: user is None without id_token.
AccessToken(payload, id_token, now) ==
    [Returns("AccessToken") EXCEPT
        !.user = id_token.sub,
        !.expires_at = ExpiresAt(now, payload.expires_in)]

\* Lines 364-367; AccessToken(self, response.json(), None).
RefreshResult(answer, now) ==
    IF answer.status < 400 THEN AccessToken(answer, NoToken, now)
    ELSE IF answer.status = 400 THEN Throws("InvalidKey")
    ELSE IF answer.status >= 500 THEN Throws("ServiceUnavailable")
    ELSE Throws("rblx_opencloudException")

\* Lines 380-383.
RevokeResult(answer) ==
    IF answer.status < 400 THEN Returns("None")
    ELSE IF answer.status = 400 THEN Throws("InvalidKey")
    ELSE IF answer.status >= 500 THEN Throws("ServiceUnavailable")
    ELSE Throws("rblx_opencloudException")

\* Lines 116-122 and 165-169: data["error"] of a 401, then data["scope"].
Unauthorized(answer) ==
    IF answer.error = NoError THEN Throws("KeyError")
    ELSE IF answer.error = "insufficient_scope"
    THEN [Throws("InsufficientScope") EXCEPT !.scope = answer.scope]
    ELSE Throws("InvalidKey")

\* Lines 108-149.
FetchResourcesResult(answer) ==
    IF answer.status = 401 THEN Unauthorized(answer) ELSE Returns("Resources")

\* Lines 157-171.
FetchTokenInfoResult(answer) ==
    IF answer.status = 401 THEN Unauthorized(answer) ELSE Returns("AccessTokenInfo")

OReady == [op |-> "ready", now |-> 0, answer |-> NoAnswer, outcome |-> NoOutcome,
           args |-> NoArgs, query |-> <<>>, length |-> NoLength, text |-> <<>>]

OInit ==
    /\ openid_certs_cache = NoCache
    /\ openid_certs_cache_updated = NoTime
    /\ openid_certs_cache_seconds \in 1..MaxCacheSeconds
    /\ onow = 0
    /\ pc = [p \in Callers |-> "idle"]
    /\ loc = [p \in Callers |-> Locals]
    /\ fetched = {}
    /\ olast = OReady

Raise(p, exc) ==
    /\ pc' = [pc EXCEPT ![p] = "done"]
    /\ loc' = [loc EXCEPT ![p].result = [ret |-> "raise", exc |-> exc, user |-> 0]]

\* Lines 313-321: the token endpoint answers.
PostToken(p, responses) ==
    /\ pc[p] = "idle"
    /\ \E resp \in responses :
         loc' = [loc EXCEPT ![p] = [Locals EXCEPT !.resp = resp]]
    /\ pc' = [pc EXCEPT ![p] = "check"]
    /\ UNCHANGED <<openid_certs_cache, openid_certs_cache_updated,
                   openid_certs_cache_seconds, onow, fetched>>

\* Line 323: `not cache or time.time() - updated > seconds`.
CacheMissing(cache) == cache = NoCache \/ cache = <<>>
CacheExpired(now, updated, seconds) == now - updated > seconds

\* A lookup that does not ask whether the response has an id_token.
CheckCache_Unconditional(p) ==
    /\ pc[p] = "check"
    /\ IF CacheMissing(openid_certs_cache)
       THEN /\ pc' = [pc EXCEPT ![p] = "fetch"]
            /\ loc' = [loc EXCEPT ![p].fetching = TRUE]
       ELSE IF openid_certs_cache_updated = NoTime
       THEN Raise(p, "TypeError")
       ELSE IF CacheExpired(onow, openid_certs_cache_updated,
                            openid_certs_cache_seconds)
       THEN /\ pc' = [pc EXCEPT ![p] = "fetch"]
            /\ loc' = [loc EXCEPT ![p].fetching = TRUE]
       ELSE /\ pc' = [pc EXCEPT ![p] = "verify"]
            /\ UNCHANGED loc
    /\ UNCHANGED <<openid_certs_cache, openid_certs_cache_updated,
                   openid_certs_cache_seconds, onow, fetched>>

\* Lines 322-323.
CheckCache(p) ==
    /\ pc[p] = "check"
    /\ IF loc[p].resp.id_token = NoToken
       THEN /\ pc' = [pc EXCEPT ![p] = "respond"]
            /\ UNCHANGED loc
       ELSE IF CacheMissing(openid_certs_cache)
       THEN /\ pc' = [pc EXCEPT ![p] = "fetch"]
            /\ loc' = [loc EXCEPT ![p].fetching = TRUE]
       ELSE IF openid_certs_cache_updated = NoTime
       THEN Raise(p, "TypeError")
       ELSE IF CacheExpired(onow, openid_certs_cache_updated,
                            openid_certs_cache_seconds)
       THEN /\ pc' = [pc EXCEPT ![p] = "fetch"]
            /\ loc' = [loc EXCEPT ![p].fetching = TRUE]
       ELSE /\ pc' = [pc EXCEPT ![p] = "verify"]
            /\ UNCHANGED loc
    /\ UNCHANGED <<openid_certs_cache, openid_certs_cache_updated,
                   openid_certs_cache_seconds, onow, fetched>>

\* A fetch that empties the cache before it looks at the answer.
FetchCerts_ClearFirst(p) ==
    /\ pc[p] = "fetch"
    /\ openid_certs_cache' = <<>>
    /\ \E certs \in CertsResponses :
         IF ~ certs.ok
         THEN /\ Raise(p, "ServiceUnavailable")
              /\ UNCHANGED fetched
         ELSE /\ pc' = [pc EXCEPT ![p] = "reset"]
              /\ loc' = [loc EXCEPT ![p].certs = certs.keys]
              /\ fetched' = fetched \cup {KeysOf(certs.keys)}
    /\ UNCHANGED <<openid_certs_cache_updated, openid_certs_cache_seconds, onow>>

\* Lines 324-325: the certs endpoint answers.
FetchCerts(p) ==
    /\ pc[p] = "fetch"
    /\ \E certs \in CertsResponses :
         IF ~ certs.ok
         THEN /\ Raise(p, "ServiceUnavailable")
              /\ UNCHANGED fetched
         ELSE /\ pc' = [pc EXCEPT ![p] = "reset"]
              /\ loc' = [loc EXCEPT ![p].certs = certs.keys]
              /\ fetched' = fetched \cup {KeysOf(certs.keys)}
    /\ UNCHANGED <<openid_certs_cache, openid_certs_cache_updated,
                   openid_certs_cache_seconds, onow>>

\* Line 327.
ResetCache(p) ==
    /\ pc[p] = "reset"
    /\ openid_certs_cache' = <<>>
    /\ pc' = [pc EXCEPT ![p] = "parse"]
    /\ loc' = [loc EXCEPT ![p].i = 1]
    /\ UNCHANGED <<openid_certs_cache_updated, openid_certs_cache_seconds,
                   onow, fetched>>

\* Lines 328-336: one turn of the loop appends one key to whatever list the
\* attribute holds now.
AppendKey(p) ==
    /\ pc[p] = "parse"
    /\ loc[p].i <= Len(loc[p].certs)
    /\ openid_certs_cache' =
           Append(openid_certs_cache, PublicKey(loc[p].certs[loc[p].i]))
    /\ loc' = [loc EXCEPT ![p].i = @ + 1]
    /\ UNCHANGED <<openid_certs_cache_updated, openid_certs_cache_seconds,
                   onow, pc, fetched>>

\* Line 337, after the loop.
StampCache(p) ==
    /\ pc[p] = "parse"
    /\ loc[p].i > Len(loc[p].certs)
    /\ openid_certs_cache_updated' = onow
    /\ pc' = [pc EXCEPT ![p] = "verify"]
    /\ UNCHANGED <<openid_certs_cache, openid_certs_cache_seconds, onow,
                   loc, fetched>>

\* Lines 339-344.
VerifyIdToken(p) ==
    /\ pc[p] = "verify"
    /\ loc' = [loc EXCEPT ![p].used = openid_certs_cache,
                          ![p].tried =
                              KeysTried(loc[p].resp.id_token, openid_certs_cache, onow),
                          ![p].id_token =
                              FirstDecoding(loc[p].resp.id_token, openid_certs_cache, onow)]
    /\ pc' = [pc EXCEPT ![p] = "respond"]
    /\ UNCHANGED <<openid_certs_cache, openid_certs_cache_updated,
                   openid_certs_cache_seconds, onow, fetched>>

\* The mapping without its 401 branch.
TokenResult_NoUnauthorized(status, id_token) ==
    IF status < 400 THEN [ret |-> "AccessToken", exc |-> "", user |-> id_token.sub]
    ELSE IF status = 400 THEN [ret |-> "raise", exc |-> "InvalidKey", user |-> 0]
    ELSE IF status >= 500 THEN [ret |-> "raise", exc |-> "ServiceUnavailable", user |-> 0]
    ELSE [ret |-> "raise", exc |-> "rblx_opencloudException", user |-> 0]

\* Lines 346-350, with AccessToken.__init__ (lines 189-201) for the user.
TokenResult(status, id_token) ==
    IF status < 400 THEN [ret |-> "AccessToken", exc |-> "", user |-> id_token.sub]
    ELSE IF status = 400 THEN [ret |-> "raise", exc |-> "InvalidKey", user |-> 0]
    ELSE IF status = 401 THEN [ret |-> "raise", exc |-> "InvalidCode", user |-> 0]
    ELSE IF status >= 500 THEN [ret |-> "raise", exc |-> "ServiceUnavailable", user |-> 0]
    ELSE [ret |-> "raise", exc |-> "rblx_opencloudException", user |-> 0]

Respond(p) ==
    /\ pc[p] = "respond"
    /\ loc' = [loc EXCEPT ![p].result =
                   TokenResult(loc[p].resp.status, loc[p].id_token)]
    /\ pc' = [pc EXCEPT ![p] = "done"]
    /\ UNCHANGED <<openid_certs_cache, openid_certs_cache_updated,
                   openid_certs_cache_seconds, onow, fetched>>

\* The caller takes the result or the exception.
Return(p) ==
    /\ pc[p] = "done"
    /\ pc' = [pc EXCEPT ![p] = "idle"]
    /\ loc' = [loc EXCEPT ![p] = Locals]
    /\ UNCHANGED <<openid_certs_cache, openid_certs_cache_updated,
                   openid_certs_cache_seconds, onow, fetched>>

OTick ==
    /\ onow < OMaxClock
    /\ onow' = onow + 1
    /\ UNCHANGED <<openid_certs_cache, openid_certs_cache_updated,
                   openid_certs_cache_seconds, pc, loc, fetched>>

\* No call is in progress on the OAuth2App.
Quiet == olast.op = "ready" /\ \A p \in Callers : pc[p] = "idle"

\* Lines 352-367.
refresh_token(answers) ==
    /\ \E answer \in answers :
         olast' = [OReady EXCEPT !.op = "refresh_token", !.now = onow,
                                 !.answer = answer,
                                 !.outcome = RefreshResult(answer, onow)]
    /\ UNCHANGED ovars

\* Lines 369-383.
revoke_token(answers) ==
    /\ \E answer \in answers :
         olast' = [OReady EXCEPT !.op = "revoke_token", !.answer = answer,
                                 !.outcome = RevokeResult(answer)]
    /\ UNCHANGED ovars

\* Lines 103-149.
fetch_resources ==
    /\ \E answer \in FetchAnswers :
         olast' = [OReady EXCEPT !.op = "fetch_resources", !.answer = answer,
                                 !.outcome = FetchResourcesResult(answer)]
    /\ UNCHANGED ovars

\* Lines 151-171.
fetch_token_info ==
    /\ \E answer \in FetchAnswers :
         olast' = [OReady EXCEPT !.op = "fetch_token_info", !.answer = answer,
                                 !.outcome = FetchTokenInfoResult(answer)]
    /\ UNCHANGED ovars

\* Lines 270-293.
generate_uri(scopes, states, verifiers) ==
    /\ \E scope \in scopes, state \in states, generate_code \in BOOLEAN,
          code_verifier \in verifiers :
         olast' = [OReady EXCEPT
                      !.op = "generate_uri",
                      !.args = [scope |-> scope, state |-> state,
                                generate_code |-> generate_code,
                                code_verifier |-> code_verifier],
                      !.query = Query(Params(scope, state, generate_code,
                                             code_verifier))]
    /\ UNCHANGED ovars

\* Lines 251-268.
generate_code_verifier(lengths) ==
    /\ \E arg \in lengths :
         LET length == IF arg = NoLength THEN DefaultLength ELSE arg
         IN  \E draws \in RandomDraws(length) :
                olast' = [OReady EXCEPT !.op = "generate_code_verifier",
                                        !.length = arg,
                                        !.text = CodeVerifier(length, draws)]
    /\ UNCHANGED ovars

\* The caller takes the result or the exception.
OReturn ==
    /\ olast.op # "ready"
    /\ olast' = OReady
    /\ UNCHANGED ovars

exchange_code(p, responses) ==
    \/ PostToken(p, responses)
    \/ CheckCache(p)
    \/ FetchCerts(p)
    \/ ResetCache(p)
    \/ AppendKey(p)
    \/ StampCache(p)
    \/ VerifyIdToken(p)
    \/ Respond(p)
    \/ Return(p)

Alone(p) == \A q \in Callers \ {p} : pc[q] = "idle"

\* One call at a time, as a single-threaded program makes them.
SeqNext ==
    /\ \/ /\ olast.op = "ready"
          /\ \E p \in Callers : Alone(p) /\ exchange_code(p, TokenResponses)
          /\ UNCHANGED olast
       \/ OTick /\ UNCHANGED olast
       \/ Quiet /\ refresh_token(TokenAnswers)
       \/ Quiet /\ revoke_token(TokenAnswers)
       \/ Quiet /\ generate_uri({List(<<"openid", "profile">>)}, {None, Str("xyz")},
                                {None, Str("verifier-1")})
       \/ Quiet /\ generate_code_verifier({0, 1})
       \/ OReturn
    /\ UNCHANGED wvars

\* Calls from several threads of one program on one OAuth2App.
ConcNext ==
    /\ \/ \E p \in Callers : exchange_code(p, GrantedResponses)
       \/ OTick
    /\ UNCHANGED <<wvars, olast>>

\* The calls that leave the OAuth2App as it is, with every argument and
\* every answer of the model.
OpsNext ==
    /\ \/ Quiet /\ refresh_token(TokenAnswers)
       \/ Quiet /\ revoke_token(TokenAnswers)
       \/ Quiet /\ fetch_resources
       \/ Quiet /\ fetch_token_info
       \/ Quiet /\ generate_uri(Scopes, States, CodeVerifiers)
       \/ Quiet /\ generate_code_verifier(0..MaxVerifierLen \cup {NoLength})
       \/ OReturn
    /\ UNCHANGED wvars

WFrozen ==
    /\ secret = NoSecret
    /\ events = [e \in EventNames |-> NoFunc]
    /\ on_error = NoFunc
    /\ wnow = StartTime
    /\ wlast = Ready

\* The OAuth2App on its own: the webhook is constructed and not used.
InitOAuth ==
    /\ OInit
    /\ WFrozen

SpecSeq == InitOAuth /\ [][SeqNext]_vars

SpecConc == InitOAuth /\ [][ConcNext]_vars

SpecOps == InitOAuth /\ [][OpsNext]_vars

OFrozen ==
    /\ openid_certs_cache = NoCache
    /\ openid_certs_cache_updated = NoTime
    /\ openid_certs_cache_seconds = 1
    /\ onow = 0
    /\ pc = [p \in Callers |-> "idle"]
    /\ loc = [p \in Callers |-> Locals]
    /\ fetched = {}
    /\ olast = OReady

\* The webhook on its own: the OAuth2App is constructed and not used.
InitWebhook ==
    /\ WInit
    /\ OFrozen

SpecWebhook == InitWebhook /\ [][WNext]_vars

---------------------------------------------------------------------------
(* Claims about Webhook.process_notification, stated on the call recorded  *)
(* in wlast.                                                               *)
IsPN == wlast.op = "process_notification"
Configured == secret # NoSecret /\ secret # ""
\* A header of the documented form t=<t>,v1=<v>.
WellFormed(h) == Len(h) >= 2 /\ Len(h[1]) >= 2 /\ Len(h[2]) >= 2
\* base64(HMAC-SHA256(S, "<t>." + B)) as the text after "v1=".
SignatureFor(S, t, B) == B64Encode(HmacSha256(S, t, B))
SignedHeader(S, t, B) == << <<Lit("t"), t>>, <<Lit("v1")>> \o SignatureFor(S, t, B) >>
EventCalls(out) == SelectSeq(out.calls, LAMBDA c : c.fn # "on_error")
ErrorCalls(out) == SelectSeq(out.calls, LAMBDA c : c.fn = "on_error")

\* C3: a request whose header is t=<now>,v1=<base64(HMAC-SHA256(S, "<now>." + B))>
\* for the webhook's secret S is not answered 401: json.loads is reached.
C3_ValidSignatureAccepted ==
    (IsPN /\ wlast.header = SignedHeader(secret, Num(wlast.now), wlast.body))
        => (wlast.out.ret # "401" /\ wlast.out.parsed)

C3_Witness ==
    /\ IsPN /\ Configured /\ wlast.validate
    /\ wlast.header = SignedHeader(secret, Num(wlast.now), wlast.body)
    /\ wlast.out.verified /\ wlast.out.ret = "204" /\ Len(wlast.out.calls) = 1

\* C4 as claimed: with a secret configured, every call whose header is
\* t=<t>,v1=<v> with v different from the signature of "<t>." + body is
\* answered 401 before anything is parsed or called.
C4_MismatchRejected_Original ==
    (IsPN /\ Configured /\ WellFormed(wlast.header)
        /\ Tail(wlast.header[2]) # SignatureFor(secret, wlast.header[1][2], wlast.body))
        => wlast.out = Rejected

\* C4, amended: the same for the calls made with validate_signature true.
C4_MismatchRejected ==
    (IsPN /\ Configured /\ wlast.validate /\ WellFormed(wlast.header)
        /\ Tail(wlast.header[2]) # SignatureFor(secret, wlast.header[1][2], wlast.body))
        => wlast.out = Rejected

\* The signature lost its last byte (the padding) and the call was rejected.
C4_Witness ==
    /\ IsPN /\ Configured /\ wlast.validate
    /\ wlast.header = << <<Lit("t"), Num(wlast.now)>>,
                         <<Lit("v1"), SignatureFor(secret, Num(wlast.now), wlast.body)[1]>> >>
    /\ wlast.out = Rejected

\* C5: with a secret configured, a missing or malformed header (fewer than
\* two parts, a part without "=", a timestamp that is no number) is answered
\* 401 and nothing is raised.
Malformed(h) ==
    \/ h = <<>>
    \/ Len(h) < 2
    \/ Len(h[1]) < 2
    \/ Len(h[2]) < 2
    \/ h[1][2].kind # "num"
C5_MalformedHeaderRejected ==
    (IsPN /\ Configured /\ wlast.validate /\ Malformed(wlast.header))
        => wlast.out = Rejected

\* C6 as claimed: with or without a secret, a call whose header is
\* t=<t>,v1=<v> with t more than 600 seconds before now is answered 401 and
\* no handler is called, whatever v is.
Stale(h, now) == h[1][2].kind = "num" /\ now - h[1][2].n > 600
C6_StaleRejected_Original ==
    (IsPN /\ WellFormed(wlast.header) /\ Stale(wlast.header, wlast.now))
        => wlast.out = Rejected

\* C6, amended: the same for the calls made with validate_signature true.
C6_StaleRejected ==
    (IsPN /\ wlast.validate /\ WellFormed(wlast.header)
        /\ Stale(wlast.header, wlast.now))
        => wlast.out = Rejected

\* A request that is 601 seconds old and correctly signed for that time was
\* answered 401.
C6_Witness ==
    /\ IsPN /\ Configured /\ wlast.validate
    /\ wlast.header = SignedHeader(secret, Num(wlast.now - 601), wlast.body)
    /\ wlast.out = Rejected

\* C7: with or without a secret, a call whose header is t=<t>,v1=<v> with
\* |now - t| > 600 is answered 401, in the future as in the past.
C7_SymmetricWindow ==
    (IsPN /\ wlast.validate /\ WellFormed(wlast.header)
        /\ wlast.header[1][2].kind = "num"
        /\ \/ wlast.now - wlast.header[1][2].n > 600
           \/ wlast.header[1][2].n - wlast.now > 600)
        => wlast.out.ret = "401"

\* C8: how a request ended.
EndRejected(out) == out.ret = "401"
EndDispatched(out) ==
    out.ret = "204" /\ Len(EventCalls(out)) = 1 /\ ErrorCalls(out) = <<>>
EndUnhandled(out) ==
    /\ EventCalls(out) = <<>>
    /\ \/ out.exc \in {"UnknownEventType", "UndefinedEventType"}
       \/ /\ ErrorCalls(out) # <<>>
          /\ ErrorCalls(out)[1].err \in {"UnknownEventType", "UndefinedEventType"}
EndErrored(out) ==
    /\ out.ret # "401"
    /\ ~ EndDispatched(out)
    /\ ~ EndUnhandled(out)
    /\ \/ out.ret = "raise"
       \/ ErrorCalls(out) # <<>>
Gated(out) ==
    /\ out.calls # <<>> => out.verified
    /\ EndRejected(out) => (~ out.parsed /\ out.calls = <<>>)
    /\ Cardinality({k \in {"Rejected", "Dispatched", "Unhandled", "Errored"} :
            \/ k = "Rejected" /\ EndRejected(out)
            \/ k = "Dispatched" /\ EndDispatched(out)
            \/ k = "Unhandled" /\ EndUnhandled(out)
            \/ k = "Errored" /\ EndErrored(out)}) = 1

Reached(b) == wlast.out.parsed /\ b.json /\ b.base /\ b.hasType
C9_EventTypeOutcomes ==
    (IsPN /\ wlast.onerr = NoFunc /\ Reached(BodyTable[wlast.body])) =>
        LET b == BodyTable[wlast.body]
            h == wlast.evs["on_test"]
        IN  /\ (b.etype = "SampleNotification" /\ b.hasUid /\ h # NoFunc)
                => wlast.out.calls =
                     << [fn |-> "on_test", fid |-> h.id, kind |-> "TestNotification",
                         user_id |-> b.uid, err |-> ""] >>
            /\ (b.etype = "SampleNotification" /\ b.hasUid /\ h = NoFunc)
                => /\ wlast.out.ret = "raise"
                   /\ wlast.out.exc = "UndefinedEventType"
                   /\ wlast.out.calls = <<>>
            /\ b.etype \notin {"SampleNotification", "RightToErasureRequest"}
                => /\ wlast.out.ret = "raise"
                   /\ wlast.out.exc = "UnknownEventType"
                   /\ wlast.out.calls = <<>>

\* An unknown EventType was raised as UnknownEventType although both event
\* handlers are registered.
C9_Witness ==
    /\ IsPN /\ wlast.onerr = NoFunc /\ Reached(BodyTable[wlast.body])
    /\ BodyTable[wlast.body].etype = "Unheard"
    /\ \A e \in EventNames : wlast.evs[e] # NoFunc
    /\ wlast.out.exc = "UnknownEventType"

\* C10: the error with which the try statement of a request that reached
\* dispatch ended, "" when it ended without one.
DispatchError ==
    IF IsPN /\ wlast.out.parsed /\ BodyTable[wlast.body].json
            /\ BodyTable[wlast.body].base
    THEN TryBody(wlast.evs, BodyTable[wlast.body]).err
    ELSE ""
PassedToOnError ==
    /\ Len(ErrorCalls(wlast.out)) = 1
    /\ ErrorCalls(wlast.out)[1].fid = wlast.onerr.id
    /\ ErrorCalls(wlast.out)[1].err = DispatchError
Propagated ==
    /\ wlast.out.ret = "raise"
    /\ wlast.out.exc = DispatchError
    /\ ErrorCalls(wlast.out) = <<>>

\* C10 as claimed: with on_error registered the error is passed to it
\* exactly once, is not raised and ("", 204) is returned; without on_error
\* the error is raised and no 204 is returned.
C10_ErrorHandler_Original ==
    DispatchError # "" =>
        IF wlast.onerr # NoFunc
        THEN PassedToOnError /\ wlast.out.ret = "204"
        ELSE Propagated

\* C10, amended: ("", 204) is returned when on_error returns; when on_error
\* itself raises, the error was still passed to it exactly once and what
\* on_error raised reaches the caller.
C10_ErrorHandler ==
    DispatchError # "" =>
        IF wlast.onerr # NoFunc
        THEN /\ PassedToOnError
             /\ wlast.out.exc # DispatchError
             /\ wlast.out.ret = (IF wlast.onerr.id = 2 THEN "raise" ELSE "204")
        ELSE Propagated

\* The on_test handler raised and on_error took the error.
C10_Witness ==
    /\ DispatchError = "HandlerError"
    /\ wlast.onerr # NoFunc
    /\ PassedToOnError
    /\ wlast.out.ret = "204"

---------------------------------------------------------------------------
(* Claims about the certs cache of exchange_code.                          *)

\* C1: of the calls whose token response carries an ID token, one that
\* finds the recorded fetch at most openid_certs_cache_seconds old fetches
\* nothing and leaves the cached keys as they are; one that finds it older
\* fetches; and when a fetch has been stored the cache is exactly the
\* fetched keys.  For every fetched key list, the empty one included.
C1_CacheTtl ==
    [][\A p \in Callers :
        /\ (/\ pc[p] = "check" /\ pc'[p] # "check"
            /\ loc[p].resp.id_token # NoToken
            /\ openid_certs_cache_updated # NoTime)
           => IF onow - openid_certs_cache_updated <= openid_certs_cache_seconds
              THEN pc'[p] = "verify" /\ UNCHANGED openid_certs_cache
              ELSE pc'[p] = "fetch"
        /\ (pc[p] = "parse" /\ pc'[p] = "verify")
           => openid_certs_cache' = KeysOf(loc[p].certs)]_vars

\* C2: under every interleaving of concurrent calls, no call fails because
\* keys are present while the timestamp is absent, and every call verifies
\* its ID token against the complete key list of one single fetch.
C2_AtomicReplace ==
    \A p \in Callers :
        /\ loc[p].result.exc # "TypeError"
        /\ loc[p].used # NoCache => loc[p].used \in fetched

---------------------------------------------------------------------------
(* Claims about the outcome of OAuth2App.exchange_code, stated on the      *)
(* calls of SpecSeq.                                                       *)
\* What a finished call gave its caller: "AccessToken" or the exception.
Kind(result) == IF result.ret = "AccessToken" THEN "AccessToken" ELSE result.exc
Success(status) == status \in 200..299
HasIdToken(p) == loc[p].resp.id_token # NoToken
\* The call asked the certs endpoint and was refused: it stored no answer.
LookupFailed(p) == pc[p] = "done" /\ loc[p].fetching /\ loc[p].i = 0
\* The status table of the specification, with the code's InvalidCode for
\* its InvalidAuthorizationCode.
StatusTable(status) ==
    IF Success(status) THEN "AccessToken"
    ELSE IF status = 400 THEN "InvalidKey"
    ELSE IF status = 401 THEN "InvalidCode"
    ELSE IF status >= 500 THEN "ServiceUnavailable"
    ELSE "rblx_opencloudException"

Verifies(token, keys, now) ==
    \E i \in 1..Len(keys) :
        keys[i] = token.signer /\ token.aud = ClientId /\ token.exp > now
Finishes(p) == pc[p] # "done" /\ pc'[p] = "done"
Granted(p) == Success(loc[p].resp.status) /\ HasIdToken(p)

\* C12 as claimed: every call answered 2xx with an ID token returns an
\* AccessToken; its user is the sub of the token when the token verifies
\* under a cached key and absent when it does not.
C12_VerificationNonFatal_Original ==
    [][\A p \in Callers :
        /\ (pc[p] = "verify" /\ pc'[p] = "respond")
           => loc'[p].id_token =
                  IF Verifies(loc[p].resp.id_token, openid_certs_cache, onow)
                  THEN loc[p].resp.id_token ELSE NoToken
        /\ (Finishes(p) /\ Granted(p))
           => /\ loc'[p].result.ret = "AccessToken"
              /\ loc'[p].result.user = loc[p].id_token.sub]_vars

\* C12, amended: the same for the calls whose key lookup does not fail; a
\* call answered 2xx with an ID token whose certs fetch is refused raises
\* ServiceUnavailable.
C12_VerificationNonFatal ==
    [][\A p \in Callers :
        /\ (pc[p] = "verify" /\ pc'[p] = "respond")
           => loc'[p].id_token =
                  IF Verifies(loc[p].resp.id_token, openid_certs_cache, onow)
                  THEN loc[p].resp.id_token ELSE NoToken
        /\ (Finishes(p) /\ Granted(p))
           => IF pc[p] = "fetch"
              THEN loc'[p].result.exc = "ServiceUnavailable"
              ELSE /\ loc'[p].result.ret = "AccessToken"
                   /\ loc'[p].result.user = loc[p].id_token.sub]_vars

\* An AccessToken without user for a token of this client, signed by a
\* cached key, that had expired when it was verified.
C12_Witness ==
    \E p \in Callers :
        /\ pc[p] = "done" /\ Success(loc[p].resp.status)
        /\ loc[p].resp.id_token.aud = ClientId
        /\ \E i \in 1..Len(loc[p].used) : loc[p].used[i] = loc[p].resp.id_token.signer
        /\ loc[p].result.ret = "AccessToken" /\ loc[p].result.user = 0

C19_FirstKeyWins ==
    [][\A p \in Callers :
        /\ (pc[p] = "verify" /\ pc'[p] = "respond")
           => LET token == loc[p].resp.id_token
                  keys == openid_certs_cache
                  good == {i \in 1..Len(keys) :
                              /\ keys[i] = token.signer
                              /\ token.aud = ClientId
                              /\ token.exp > onow}
              IN  /\ loc'[p].used = keys
                  /\ IF good = {}
                     THEN /\ loc'[p].tried = Len(keys)
                          /\ loc'[p].id_token = NoToken
                     ELSE /\ loc'[p].tried \in good
                          /\ \A i \in good : loc'[p].tried <= i
                          /\ loc'[p].id_token = token
        /\ (pc[p] = "respond" /\ pc'[p] = "done" /\ loc'[p].result.ret = "AccessToken")
           => loc'[p].result.user = loc[p].id_token.sub]_vars

\* A token that decoded under the first of two cached keys: the second was
\* not tried.
C19_Witness ==
    \E p \in Callers :
        /\ pc[p] = "respond" /\ Len(loc[p].used) = 2
        /\ loc[p].tried = 1 /\ loc[p].id_token # NoToken

---------------------------------------------------------------------------
(* Claims about the calls recorded in olast.                               *)
IsOp(op) == olast.op = op
HasParam(query, key) == \E i \in 1..Len(query) : query[i].key = key
ParamValue(query, key) == query[CHOOSE i \in 1..Len(query) : query[i].key = key].value

\* C14: refresh_token maps the token endpoint's status as exchange_code is
\* said to: an AccessToken on 2xx only, InvalidKey on 400, InvalidCode on
\* 401, ServiceUnavailable on 500 and above, the generic exception on the
\* rest; and the AccessToken has no user.
C14_RefreshMapping ==
    IsOp("refresh_token")
        => /\ Kind(olast.outcome) = StatusTable(olast.answer.status)
           /\ olast.outcome.user = 0

\* C15: in refresh_token, revoke_token, fetch_resources and
\* fetch_token_info an error answer whose body says insufficient_scope
\* raises InsufficientScope with the scope of the body, and an error answer
\* without it raises what the status table gives.
C15_InsufficientScope ==
    (/\ olast.op \in {"refresh_token", "revoke_token",
                       "fetch_resources", "fetch_token_info"}
     /\ olast.answer.status >= 400)
        => IF olast.answer.error = "insufficient_scope"
           THEN /\ olast.outcome.exc = "InsufficientScope"
                /\ olast.outcome.scope = olast.answer.scope
           ELSE olast.outcome.exc = StatusTable(olast.answer.status)

\* C16: the URI has code_challenge exactly when it has
\* code_challenge_method; called with a verifier (a non-empty string) it
\* has code_challenge = the unpadded base64url text of SHA-256(verifier)
\* and code_challenge_method = S256; called without one it has neither.
C16_Pkce ==
    IsOp("generate_uri")
        => LET v == olast.args.code_verifier
               q == olast.query
           IN  /\ HasParam(q, "code_challenge") <=> HasParam(q, "code_challenge_method")
               /\ v = None => ~ HasParam(q, "code_challenge")
               /\ (v.kind = "str" /\ v.text # "")
                  => /\ HasParam(q, "code_challenge")
                     /\ ParamValue(q, "code_challenge") =
                            [kind |-> "b64url-sha256", text |-> v.text,
                             items |-> <<>>, pad |-> FALSE, quoted |-> TRUE]
                     /\ HasParam(q, "code_challenge_method")
                     /\ ParamValue(q, "code_challenge_method") =
                            [kind |-> "str", text |-> "S256",
                             items |-> <<>>, pad |-> FALSE, quoted |-> TRUE]

\* A URI made with a verifier, scope list and state: it has both parameters.
C16_Witness ==
    /\ IsOp("generate_uri")
    /\ olast.args.code_verifier = Str("verifier-2")
    /\ olast.args.state = Str("xyz")
    /\ HasParam(olast.query, "code_challenge")
    /\ HasParam(olast.query, "code_challenge_method")
    /\ Len(olast.query) = 7

\* C17: whatever scope, state, generate_code and code_verifier are, no
\* parameter of the URI has a null or an empty value.
C17_NoEmptyParameters ==
    IsOp("generate_uri")
        => \A i \in 1..Len(olast.query) :
              /\ olast.query[i].value.kind # "None"
              /\ ~ (olast.query[i].value.kind = "str" /\ olast.query[i].value.text = "")

\* A-Z, a-z, 0-9, "-", ".", "_", "~".
Unreserved ==
    { "A", "B", "C", "D", "E", "F", "G", "H", "I", "J", "K", "L", "M",
      "N", "O", "P", "Q", "R", "S", "T", "U", "V", "W", "X", "Y", "Z",
      "a", "b", "c", "d", "e", "f", "g", "h", "i", "j", "k", "l", "m",
      "n", "o", "p", "q", "r", "s", "t", "u", "v", "w", "x", "y", "z",
      "0", "1", "2", "3", "4", "5", "6", "7", "8", "9", "-", ".", "_", "~" }

\* C18: generate_code_verifier(length=N) gives N characters, 128 of them
\* when it is called without argument, and every one is an unreserved
\* character.
C18_CodeVerifier ==
    IsOp("generate_code_verifier")
        => /\ Len(olast.text) = IF olast.length = NoLength THEN 128 ELSE olast.length
           /\ \A k \in 1..Len(olast.text) : olast.text[k] \in Unreserved

\* A verifier made without argument: 128 characters, not all the same.
C18_Witness ==
    /\ IsOp("generate_code_verifier")
    /\ olast.length = NoLength
    /\ Len(olast.text) = 128
    /\ olast.text[1] # olast.text[2]

\* The steps of exchange_code's key lookup, from the test of the cache to
\* the verification.
InLookup(stage) == stage \in {"fetch", "reset", "parse", "verify"}

\* C20: only an exchange_code call whose token response has an id_token
\* enters the key lookup, and only such a call, in its lookup, changes the
\* cached keys or the timestamp or gets an answer from the certs endpoint;
\* refresh_token, revoke_token, generate_uri and generate_code_verifier
\* leave all three as they are.
C20_CacheFrame ==
    [][/\ \A p \in Callers : InLookup(pc'[p]) => loc'[p].resp.id_token # NoToken
       /\ (\/ openid_certs_cache' # openid_certs_cache
           \/ openid_certs_cache_updated' # openid_certs_cache_updated
           \/ fetched' # fetched)
          => /\ UNCHANGED olast
             /\ \E p \in Callers :
                   /\ InLookup(pc[p]) /\ (pc'[p] # pc[p] \/ loc'[p] # loc[p])
                   /\ loc[p].resp.id_token # NoToken
       /\ olast' # olast
          => UNCHANGED <<openid_certs_cache, openid_certs_cache_updated,
                         fetched, pc, loc>>]_vars

\* A refresh_token answered while the OAuth2App holds fetched keys.
C20_Witness ==
    /\ IsOp("refresh_token") /\ olast.outcome.ret = "AccessToken"
    /\ openid_certs_cache # NoCache /\ Len(openid_certs_cache) = 2

---------------------------------------------------------------------------
(* Claims about Webhook.event.                                             *)
\* C21: event(func) puts func in the registry under its name when the name
\* is on_test or on_right_to_erasure_request, in place of what was there and
\* leaving the other entry and the error slot alone; puts a function named
\* on_error in the error slot and leaves the registry alone; raises
\* ValueError for every other name and leaves both alone.  Nothing else
\* changes the registry or the slot, and process_notification calls the
\* function the registry holds for the event of the body.
C21_Registration ==
    [][/\ (wlast.op = "ready" /\ wlast'.op = "event")
          => LET f == wlast'.func
             IN  IF f.name \in {"on_test", "on_right_to_erasure_request"}
                 THEN /\ wlast'.out.ret = "return"
                      /\ events'[f.name] = f
                      /\ \A e \in (DOMAIN events) \ {f.name} : events'[e] = events[e]
                      /\ DOMAIN events' = DOMAIN events
                      /\ on_error' = on_error
                 ELSE IF f.name = "on_error"
                 THEN /\ wlast'.out.ret = "return"
                      /\ on_error' = f
                      /\ events' = events
                 ELSE /\ wlast'.out.ret = "raise" /\ wlast'.out.exc = "ValueError"
                      /\ events' = events /\ on_error' = on_error
       /\ ~ (wlast.op = "ready" /\ wlast'.op = "event")
          => (events' = events /\ on_error' = on_error)
       /\ (wlast.op = "ready" /\ wlast'.op = "process_notification")
          => \A i \in 1..Len(wlast'.out.calls) :
                LET c == wlast'.out.calls[i]
                IN  c.fn # "on_error"
                    => /\ c.fn = EVENT_TYPES(BodyTable[wlast'.body].etype)
                       /\ events[c.fn] = [name |-> c.fn, id |-> c.fid]]_vars

\* A second on_test function has been registered where the first was.
C21_Witness ==
    /\ wlast.op = "event"
    /\ wlast.evs["on_test"].id = 1
    /\ wlast.func = [name |-> "on_test", id |-> 2]
    /\ events["on_test"] = wlast.func

---------------------------------------------------------------------------
(* Claims about AccessToken.                                               *)
\* C22: the AccessToken that refresh_token builds from a response with
\* expires_in = n at time t has expires_at = t + n seconds.
C22_ExpiresAt ==
    (IsOp("refresh_token") /\ olast.outcome.ret = "AccessToken")
        => olast.outcome.expires_at = olast.now + olast.answer.expires_in

=============================================================================
